---------------------------- MODULE Spec2Model ----------------------------
(***************************************************************************)
(* A model of jeni (jeni.py) and of its decoration layer                   *)
(* (jeni_decoration.py): the provider registry on the injector classes,    *)
(* the stateful GeneratorProvider, note resolution with nested injection   *)
(* of annotated callables, Injector.close, and decorators_iter /           *)
(* decorators_apply.                                                       *)
(*                                                                         *)
(* Python values are records [py, s]: py is the Python type, s a sequence  *)
(* (the characters of a str, the items of a tuple, <<n>> for an int).      *)
(* A call of the program is one action; what the call returned or raised,  *)
(* and the provider / decorator invocations it made, are recorded in the   *)
(* variable last, the way the tests' mocks record calls.                   *)
(***************************************************************************)
EXTENDS Integers, Sequences, FiniteSets, TLC

(***************************************************************************)
(* Bounds of the model.                                                    *)
(***************************************************************************)
MaxRegs == 2

MaxDecos == 3

MaxOps == 3

MaxLen == 4

(***************************************************************************)
(* Python values.                                                          *)
(***************************************************************************)
None == [py |-> "None", s |-> << >>]

Str(chars) == [py |-> "str", s |-> chars]

Tup(items) == [py |-> "tuple", s |-> items]

PyInt(n) == [py |-> "int", s |-> <<n>>]

IT == Str(<<"i", "t">>)

DEP == Str(<<"d", "e", "p">>)

N1 == Str(<<"x">>)

N2 == Str(<<"y">>)

\* 'base:name', the annotation string of a named note
Named(base, name) == Str(base.s \o <<":">> \o name.s)

(***************************************************************************)
(* Injector.re_note matched against the characters s: a lazy first group,  *)
(* then an optional group made of a colon and a greedy rest, anchored at   *)
(* both ends.  The dot matches any character but a newline; the end anchor *)
(* matches at the end and before a newline that ends the string.  Group 1  *)
(* is the shortest prefix after which the rest matches.                    *)
(***************************************************************************)
DollarAt(s, p) == p = Len(s) \/ (p = Len(s) - 1 /\ s[Len(s)] = "\n")

NoNewline(s, a, b) == \A i \in a..b : s[i] # "\n"

\* the optional colon group can match right after a group 1 of length k
NameGroupAt(s, k) ==
    /\ k < Len(s)
    /\ s[k + 1] = ":"
    /\ \E m \in (k + 1)..Len(s) : NoNewline(s, k + 2, m) /\ DollarAt(s, m)

\* the end of the greedy rest of the optional group
NameGroupEnd(s, k) ==
    CHOOSE m \in (k + 1)..Len(s) :
        /\ NoNewline(s, k + 2, m) /\ DollarAt(s, m)
        /\ \A m2 \in (k + 1)..Len(s) :
              (NoNewline(s, k + 2, m2) /\ DollarAt(s, m2)) => m2 <= m

MatchesWith(s, k) == NoNewline(s, 1, k) /\ (NameGroupAt(s, k) \/ DollarAt(s, k))

re_note(s) ==
    IF \E k \in 0..Len(s) : MatchesWith(s, k)
    THEN LET k == CHOOSE i \in 0..Len(s) :
                     MatchesWith(s, i) /\ \A j \in 0..(i - 1) : ~MatchesWith(s, j)
         IN  [matched |-> TRUE,
              base |-> Str(SubSeq(s, 1, k)),
              name |-> IF NameGroupAt(s, k)
                       THEN Str(SubSeq(s, k + 2, NameGroupEnd(s, k)))
                       ELSE None]
    ELSE [matched |-> FALSE, base |-> None, name |-> None]

(***************************************************************************)
(* Injector.parse_note: (base, name) of a note, or the error it raises.    *)
(***************************************************************************)
parse_note(note) ==
    IF note.py = "tuple"
    THEN IF Len(note.s) # 2
         THEN [ok |-> FALSE, exc |-> "ValueError", base |-> None, name |-> None]
         ELSE [ok |-> TRUE, exc |-> "", base |-> note.s[1], name |-> note.s[2]]
    ELSE IF note.py # "str"
    THEN [ok |-> TRUE, exc |-> "", base |-> note, name |-> None]
    ELSE LET m == re_note(note.s)
         IN  IF m.matched
             THEN [ok |-> TRUE, exc |-> "", base |-> m.base, name |-> m.name]
             ELSE [ok |-> FALSE, exc |-> "AttributeError", base |-> None, name |-> None]

(***************************************************************************)
(* The callables of the model: the providers that get registered and the   *)
(* annotated functions that get applied.                                   *)
(*   error               a factory that raises UnsetError                  *)
(*   forty_two           a factory without arguments that returns 42       *)
(*   FooProvider         a Provider class whose get is annotated with one  *)
(*                       positional note; every get returns a new value    *)
(*   UnsetProvider       a Provider class whose constructor raises         *)
(*                       UnsetError                                        *)
(*   generator           a generator function with a single yield          *)
(*   generator_with_name a generator function that yields once and then    *)
(*                       yields a greeting for every name sent to it       *)
(*   TestGenie           a Provider class of the decoration tests: get     *)
(*                       returns 'abc', and the name it is asked for       *)
(*   positional_error    annotated with one positional note                *)
(*   keyword_error       annotated with one positional and one keyword     *)
(*                       note                                              *)
(*   keyword_named       annotated with one keyword note, a note with a    *)
(*                       name                                              *)
(***************************************************************************)
Classes == {"FooProvider", "UnsetProvider", "TestGenie"}

GenFns == {"generator", "generator_with_name"}

Factories == {"error"}

Applied == {"positional_error", "keyword_error"}

isclass(p) == p \in Classes

isgeneratorfunction(p) == p \in GenFns

\* the named arguments of a callable without a default, self skipped
PositionalArgs(fn) ==
    CASE fn = "FooProvider.get" -> <<"bar">>
      [] fn = "positional_error" -> <<"error">>
      [] fn = "keyword_error" -> <<"answer">>
      [] OTHER -> << >>

\* the named arguments of a callable with a default
KeywordArgs(fn) ==
    CASE fn = "FooProvider.get" -> <<"name">>
      [] fn = "GeneratorProvider.get" -> <<"name">>
      [] fn = "TestGenie.get" -> <<"name">>
      [] fn = "keyword_error" -> <<"unused">>
      [] fn = "keyword_named" -> <<"named">>
      [] OTHER -> << >>

\* __annotations__ of a callable: argument name -> note
get_annotations(fn) ==
    CASE fn = "FooProvider.get" -> [a \in {"bar"} |-> DEP]
      [] fn = "positional_error" -> [a \in {"error"} |-> DEP]
      [] fn = "keyword_error" ->
            [a \in {"answer", "unused"} |-> IF a = "answer" THEN IT ELSE DEP]
      [] fn = "keyword_named" -> [a \in {"named"} |-> Named(IT, N1)]
      [] OTHER -> << >>

has_annotations(fn) == DOMAIN get_annotations(fn) # {}

RECURSIVE PositionalNotes(_, _, _)
\* the notes of the positional arguments, up to the first one not annotated
PositionalNotes(fn, args, i) ==
    IF i > Len(args) \/ args[i] \notin DOMAIN get_annotations(fn)
    THEN << >>
    ELSE <<get_annotations(fn)[args[i]]>> \o PositionalNotes(fn, args, i + 1)

RECURSIVE KeywordNotes(_, _, _)
\* <<argument, note>> of every annotated keyword argument
KeywordNotes(fn, kws, i) ==
    IF i > Len(kws)
    THEN << >>
    ELSE (IF kws[i] \in DOMAIN get_annotations(fn)
          THEN <<<<kws[i], get_annotations(fn)[kws[i]]>>>>
          ELSE << >>) \o KeywordNotes(fn, kws, i + 1)

collect_notes(fn) ==
    [notes |-> PositionalNotes(fn, PositionalArgs(fn), 1),
     keyword_notes |-> KeywordNotes(fn, KeywordArgs(fn), 1)]

(***************************************************************************)
(* The generator objects behind a GeneratorProvider.  A generator is       *)
(* "created", then suspended at a yield ("yielded"), then "done".          *)
(***************************************************************************)
HELLO == Str(<<"H", "i">>)

Greeting(name) == Tup(<<HELLO, name>>)

\* next(generator) / generator.send(sent): the new state and what it yielded
GenResume(g, gstate, sent) ==
    CASE gstate = "created" -> [gstate |-> "yielded", yielded |-> TRUE, val |-> HELLO]
      [] gstate = "yielded" /\ g = "generator_with_name" ->
            [gstate |-> "yielded", yielded |-> TRUE, val |-> Greeting(sent)]
      [] OTHER -> [gstate |-> "done", yielded |-> FALSE, val |-> None]

\* generator.close(): GeneratorExit at the yield, the generator returns
GenClose(g, gstate) == "done"

(***************************************************************************)
(* The injector classes: S is a subclass of T.  The classes above T        *)
(* (Injector, object) never get a registry of their own here.              *)
(***************************************************************************)
Types == {"T", "S"}

mro(cls) == IF cls = "S" THEN <<"S", "T">> ELSE <<"T">>

\* the injector instances; klass is the class each was constructed from
Injectors == {"i1", "i2"}

VARIABLES
    klass,              \* injector -> type(self)
    provider_registry,  \* cls -> [exists, tab]: vars(cls)['provider_registry']
    support_name,       \* generator function -> its support_name attribute
    decorator_registry, \* cls -> [exists, tab]: vars(cls)['decorator_registry']
    closed,             \* injector -> self.closed
    instances,          \* injector -> self.instances, in insertion order
    values,             \* injector -> self.values
    last,               \* the last call: what it returned or raised, and its calls
    registered_as,      \* generator function -> the name flags it was registered with
    nregs,              \* provider registrations so far
    ndecos,             \* decorator registrations so far
    nops                \* calls on injectors so far

type(inj) == klass[inj]

vars == <<klass, provider_registry, support_name, decorator_registry, closed, instances,
          values, last, registered_as, nregs, ndecos, nops>>

(***************************************************************************)
(* Dictionaries.  self.instances is iterated by close: a sequence of       *)
(* [key, inst] in insertion order.  The other dictionaries are functions.  *)
(***************************************************************************)
HasInst(ins, k) == \E i \in 1..Len(ins) : ins[i].key = k

InstAt(ins, k) == CHOOSE i \in 1..Len(ins) : ins[i].key = k

GetInst(ins, k) == ins[InstAt(ins, k)].inst

SetInst(ins, k, inst) ==
    IF HasInst(ins, k)
    THEN [ins EXCEPT ![InstAt(ins, k)].inst = inst]
    ELSE Append(ins, [key |-> k, inst |-> inst])

SetItem(d, k, v) == [x \in (DOMAIN d) \cup {k} |-> IF x = k THEN v ELSE d[x]]

\* a class instance / a GeneratorProvider held in self.instances
NewObject(p) ==
    [kind |-> "obj", p |-> p, support_name |-> FALSE, gstate |-> "",
     init_value |-> None, n |-> 0, closes |-> 0]

NewGeneratorProvider(fn, sn) ==
    [kind |-> "gen", p |-> fn, support_name |-> sn, gstate |-> "created",
     init_value |-> None, n |-> 0, closes |-> 0]

(***************************************************************************)
(* What a call returns or raises.  st is the injector's [ins, vals, ev]    *)
(* after the call; note is the note attribute of an UnsetError and origin  *)
(* the note whose provider raised it.                                      *)
(***************************************************************************)
Return(st, v) ==
    [st |-> st, ok |-> TRUE, val |-> v, exc |-> "", note |-> None, origin |-> None]

Raise(st, exc, note, origin) ==
    [st |-> st, ok |-> FALSE, val |-> None, exc |-> exc, note |-> note,
     origin |-> origin]

\* an invocation recorded: kind is "lookup", "new" (a class is instantiated),
\* "init" / "send" (a generator is started / resumed), "get", "call", "close",
\* "deco" (a decoration step is called with arg), who the callable, base the
\* base note it serves
Event(st, kind, who, base, arg) ==
    [st EXCEPT !.ev = Append(@, [kind |-> kind, who |-> who, base |-> base, arg |-> arg])]

(***************************************************************************)
(* Injector.register / Injector.lookup                                     *)
(***************************************************************************)
NoRegistry == [exists |-> FALSE, tab |-> << >>]

\* register writing through the inherited attribute: without its own
\* registry a subclass stores into the registry of its base class
register_inherited(reg, cls, basenote, provider) ==
    IF ~reg[cls].exists /\ Len(mro(cls)) > 1 /\ reg[mro(cls)[2]].exists
    THEN [reg EXCEPT ![mro(cls)[2]].tab = SetItem(@, basenote, provider)]
    ELSE [reg EXCEPT ![cls] = [exists |-> TRUE, tab |-> SetItem(reg[cls].tab, basenote, provider)]]

register(reg, cls, basenote, provider) ==
    [reg EXCEPT ![cls] = [exists |-> TRUE, tab |-> SetItem(reg[cls].tab, basenote, provider)]]

RECURSIVE lookup_from(_, _, _, _)
lookup_from(reg, classes, i, basenote) ==
    IF i > Len(classes)
    THEN "LookupError"
    ELSE IF ~reg[classes[i]].exists
    THEN lookup_from(reg, classes, i + 1, basenote)
    ELSE IF basenote \in DOMAIN reg[classes[i]].tab
    THEN reg[classes[i]].tab[basenote]
    ELSE lookup_from(reg, classes, i + 1, basenote)

lookup(cls, basenote) == lookup_from(provider_registry, mro(cls), 1, basenote)

(***************************************************************************)
(* GeneratorProvider.init / get / close on the provider held under         *)
(* basenote in st.ins                                                      *)
(***************************************************************************)
GeneratorProvider_init(st, basenote, gp) ==
    LET r == GenResume(gp.p, "created", None)
        st1 == Event(st, "init", gp.p, basenote, None)
    IN  IF ~r.yielded
        THEN Raise(st1, "RuntimeError", None, None)
        ELSE [Return(st1, r.val) EXCEPT
                 !.st.ins = SetInst(st1.ins, basenote,
                               [gp EXCEPT !.gstate = r.gstate, !.init_value = r.val])]

GeneratorProvider_get(st, basenote, name) ==
    LET gp == GetInst(st.ins, basenote)
        r == GenResume(gp.p, gp.gstate, name)
        st1 == Event([st EXCEPT !.ins = SetInst(@, basenote, [gp EXCEPT !.gstate = r.gstate])],
                     "send", gp.p, basenote, name)
    IN  IF name = None
        THEN Return(st, gp.init_value)
        ELSE IF ~gp.support_name
        THEN Raise(st, "TypeError", None, None)
        ELSE IF ~r.yielded
        THEN Raise(st1, "RuntimeError", None, None)
        ELSE Return(st1, r.val)

\* close() returning whatever the generator does when resumed
GeneratorProvider_close_quiet(gp) ==
    LET g1 == IF gp.support_name THEN GenClose(gp.p, gp.gstate) ELSE gp.gstate
        r == GenResume(gp.p, g1, None)
    IN  [inst |-> [gp EXCEPT !.gstate = r.gstate, !.closes = @ + 1],
         raised |-> FALSE]

\* the provider after close(), and whether close() raised
GeneratorProvider_close(gp) ==
    LET g1 == IF gp.support_name THEN GenClose(gp.p, gp.gstate) ELSE gp.gstate
        r == GenResume(gp.p, g1, None)
    IN  [inst |-> [gp EXCEPT !.gstate = r.gstate, !.closes = @ + 1],
         raised |-> r.yielded]

\* Provider.close of a class provider: nothing to do
Provider_close(obj) == [inst |-> [obj EXCEPT !.closes = @ + 1], raised |-> FALSE]

(***************************************************************************)
(* Injector.resolve, handle_provider, init_generator, fulfill, partial:    *)
(* they call each other while resolving the notes of annotated callables.  *)
(***************************************************************************)
\* the get method of what self.instances holds
GetMethod(inst) ==
    IF inst.kind = "gen" THEN "GeneratorProvider.get"
    ELSE IF inst.p = "TestGenie" THEN "TestGenie.get"
    ELSE "FooProvider.get"

ABC == Str(<<"a", "b", "c">>)

\* what TestGenie.get returns
GenieValue(name) == IF name = None THEN ABC ELSE name

\* fn(*args, **kwargs) / fn(*args, name=name, **kwargs) of a provider's callable
Call(st, basenote, fn, args, name, note) ==
    CASE fn = "FooProvider.get" ->
            LET obj == GetInst(st.ins, basenote)
                st1 == [st EXCEPT !.ins = SetInst(@, basenote, [obj EXCEPT !.n = @ + 1])]
            IN  Return(Event(st1, "get", obj.p, basenote, name),
                       Tup(<<args[1], Str(<<"foo">>), name, PyInt(obj.n + 1)>>))
      [] fn = "GeneratorProvider.get" -> GeneratorProvider_get(st, basenote, name)
      [] fn = "TestGenie.get" ->
            Return(Event(st, "get", "TestGenie", basenote, name), GenieValue(name))
      [] fn = "error" ->
            IF name # None
            THEN Raise(st, "TypeError", None, None)
            ELSE Raise(Event(st, "call", fn, basenote, None), "UnsetError", None, note)
      [] fn = "forty_two" ->
            IF name # None
            THEN Raise(st, "TypeError", None, None)
            ELSE Return(Event(st, "call", fn, basenote, None), PyInt(42))
      [] OTHER -> Raise(st, "TypeError", None, None)

\* the notes of a callable in the order fulfill resolves them: the
\* positional ones, then the keyword ones
NotesInOrder(collected) ==
    [i \in 1..(Len(collected.notes) + Len(collected.keyword_notes)) |->
        IF i <= Len(collected.notes)
        THEN [keyword |-> FALSE, arg |-> "", note |-> collected.notes[i]]
        ELSE [keyword |-> TRUE,
              arg |-> collected.keyword_notes[i - Len(collected.notes)][1],
              note |-> collected.keyword_notes[i - Len(collected.notes)][2]]]

NoArguments(st) == Return(st, <<<< >>, << >>>>)

\* args / kwargs with the value r resolved for item put in front; a keyword
\* item whose resolution raised UnsetError is left out
Bound(item, r, rest) ==
    IF ~rest.ok THEN rest
    ELSE IF ~r.ok THEN rest
    ELSE IF item.keyword
    THEN [rest EXCEPT !.val[2] = <<<<item.arg, r.val>>>> \o @]
    ELSE [rest EXCEPT !.val[1] = <<r.val>> \o @]

RECURSIVE resolve(_, _, _)
RECURSIVE handle_provider(_, _, _, _, _, _)
RECURSIVE fulfill_from(_, _, _, _)
RECURSIVE fulfill_next(_, _, _, _)

\* fulfill leaving out a keyword argument whatever its resolution raised
fulfill_next_any(cls, items, i, r) ==
    IF ~r.ok /\ ~items[i].keyword
    THEN r
    ELSE Bound(items[i], r, fulfill_from(cls, r.st, items, i + 1))

\* the rest of fulfill once item i resolved to r: an error ends it, but for
\* the UnsetError of a keyword note
fulfill_next(cls, items, i, r) ==
    IF ~r.ok /\ ~(items[i].keyword /\ r.exc = "UnsetError")
    THEN r
    ELSE Bound(items[i], r, fulfill_from(cls, r.st, items, i + 1))

fulfill_from(cls, st, items, i) ==
    IF i > Len(items)
    THEN NoArguments(st)
    ELSE fulfill_next(cls, items, i, resolve(cls, st, items[i].note))

\* Injector.fulfill: val is <<args, kwargs>>
fulfill(cls, st, collected) == fulfill_from(cls, st, NotesInOrder(collected), 1)

\* Injector.prepare, the arguments behind Injector.partial and Injector.apply
prepare(cls, st, fn) == fulfill(cls, st, collect_notes(fn))

\* the arguments bound to fn by "if has_annotations(fn): fn = self.partial(fn)"
partial_if_annotated(cls, st, fn) ==
    IF has_annotations(fn) THEN prepare(cls, st, fn) ELSE NoArguments(st)

\* provider.init(*args, **kwargs) once the arguments f are bound
init_with(basenote, provider, f) ==
    IF ~f.ok THEN f ELSE GeneratorProvider_init(f.st, basenote, provider)

\* the provider is stored under basenote by the caller's assignment
init_generator(cls, st, basenote, fn) ==
    IF support_name[fn] = "unset"
    THEN Raise(st, "AttributeError", None, None)
    ELSE init_with(basenote, NewGeneratorProvider(fn, support_name[fn] = "true"),
                   partial_if_annotated(cls, st, fn))

\* the try block storing what fn returned in self.values, named or not
try_call_stored(note, basenote, name, r) ==
    IF ~r.ok
    THEN IF r.exc = "UnsetError" THEN [r EXCEPT !.note = note] ELSE r
    ELSE [r EXCEPT !.st.vals = SetItem(@, basenote, r.val)]

\* the try block of handle_provider: r is what fn() / fn(name=name) did
try_call(note, basenote, name, r) ==
    IF ~r.ok
    THEN IF r.exc = "UnsetError" THEN [r EXCEPT !.note = note] ELSE r
    ELSE IF name = None
    THEN [r EXCEPT !.st.vals = SetItem(@, basenote, r.val)]
    ELSE r

\* handle_provider once fn is chosen and its arguments p are bound
call_bound(fn, note, basenote, name, p) ==
    IF ~p.ok THEN p
    ELSE try_call(note, basenote, name, Call(p.st, basenote, fn, p.val[1], name, note))

\* the values of a generator provider just initialised
init_values(basenote, g) ==
    IF ~g.ok THEN g ELSE [g EXCEPT !.st.vals = SetItem(@, basenote, g.val)]

\* handle_provider making the provider whether or not self.instances holds
\* one for basenote
materialize_again(cls, st, provider_or_fn, note, basenote, name) ==
    IF isclass(provider_or_fn)
    THEN IF provider_or_fn = "UnsetProvider"
         THEN [done |-> TRUE, fn |-> "",
               r |-> Raise(Event(st, "new", provider_or_fn, basenote, None), "UnsetError", None, note)]
         ELSE [done |-> FALSE, fn |-> GetMethod(NewObject(provider_or_fn)),
               r |-> Return([Event(st, "new", provider_or_fn, basenote, None) EXCEPT
                                !.ins = SetInst(@, basenote, NewObject(provider_or_fn))],
                            None)]
    ELSE IF isgeneratorfunction(provider_or_fn)
    THEN [done |-> name = None \/ support_name[provider_or_fn] = "unset",
          fn |-> "GeneratorProvider.get",
          r |-> init_values(basenote, init_generator(cls, st, basenote, provider_or_fn))]
    ELSE [done |-> FALSE, r |-> Return(st, None), fn |-> provider_or_fn]

\* the first part of handle_provider: the provider behind basenote is taken
\* from self.instances or made.  done: handle_provider is over with r (an
\* error, or the initial value of a generator resolved without a name);
\* otherwise fn is called next, in r.st.
materialize(cls, st, provider_or_fn, note, basenote, name) ==
    IF HasInst(st.ins, basenote)
    THEN [done |-> FALSE, r |-> Return(st, None),
          fn |-> GetMethod(GetInst(st.ins, basenote))]
    ELSE IF isclass(provider_or_fn)
    THEN IF provider_or_fn = "UnsetProvider"
         THEN [done |-> TRUE, fn |-> "",
               r |-> Raise(Event(st, "new", provider_or_fn, basenote, None), "UnsetError", None, note)]
         ELSE [done |-> FALSE, fn |-> GetMethod(NewObject(provider_or_fn)),
               r |-> Return([Event(st, "new", provider_or_fn, basenote, None) EXCEPT
                                !.ins = SetInst(@, basenote, NewObject(provider_or_fn))],
                            None)]
    ELSE IF isgeneratorfunction(provider_or_fn)
    THEN [done |-> name = None \/ support_name[provider_or_fn] = "unset",
          fn |-> "GeneratorProvider.get",
          r |-> init_values(basenote, init_generator(cls, st, basenote, provider_or_fn))]
    ELSE [done |-> FALSE, r |-> Return(st, None), fn |-> provider_or_fn]

handle_next(cls, note, basenote, name, m) ==
    IF m.done \/ ~m.r.ok
    THEN m.r
    ELSE call_bound(m.fn, note, basenote, name, partial_if_annotated(cls, m.r.st, m.fn))

handle_provider(cls, st, provider_or_fn, note, basenote, name) ==
    handle_next(cls, note, basenote, name,
                materialize(cls, st, provider_or_fn, note, basenote, name))

\* resolve without the short cut through self.values
resolve_parsed_uncached(cls, st, note, pn, found) ==
    IF ~pn.ok
    THEN Raise(st, pn.exc, None, None)
    ELSE IF found = "LookupError"
    THEN Raise(Event(st, "lookup", "provider_registry", pn.base, None), "LookupError", None, None)
    ELSE handle_provider(cls, Event(st, "lookup", "provider_registry", pn.base, None),
                         found, note, pn.base, pn.name)

\* resolve once the note is parsed and the registry looked up
resolve_parsed(cls, st, note, pn, found) ==
    IF ~pn.ok
    THEN Raise(st, pn.exc, None, None)
    ELSE IF pn.name = None /\ pn.base \in DOMAIN st.vals
    THEN Return(st, st.vals[pn.base])
    ELSE IF found = "LookupError"
    THEN Raise(Event(st, "lookup", "provider_registry", pn.base, None), "LookupError", None, None)
    ELSE handle_provider(cls, Event(st, "lookup", "provider_registry", pn.base, None),
                         found, note, pn.base, pn.name)

resolve(cls, st, note) ==
    resolve_parsed(cls, st, note, parse_note(note), lookup(cls, parse_note(note).base))

\* the call of the applied function with what fulfill bound
call_applied(fn, p) ==
    IF ~p.ok THEN p
    ELSE Return(Event(p.st, "call", fn, None, None), Tup(<<Tup(p.val[1]), Tup(p.val[2])>>))

\* Injector.apply
apply(cls, st, fn) == call_applied(fn, prepare(cls, st, fn))

(***************************************************************************)
(* Injector.close: the loop over self.instances.values(); a close that     *)
(* raises ends the loop.                                                   *)
(***************************************************************************)
\* provider.close() of a class provider or a GeneratorProvider
provider_close(provider) ==
    IF provider.kind = "gen" THEN GeneratorProvider_close(provider)
    ELSE Provider_close(provider)

RECURSIVE close_from(_, _)
RECURSIVE close_next(_, _, _)
close_next(st, i, c) ==
    IF c.raised
    THEN Raise(st, "RuntimeError", None, None)
    ELSE close_from(st, i + 1)

close_from(st, i) ==
    IF i > Len(st.ins)
    THEN Return(st, None)
    ELSE close_next(Event([st EXCEPT !.ins[i].inst = provider_close(@).inst],
                          "close", st.ins[i].inst.p, st.ins[i].key, None),
                    i, provider_close(st.ins[i].inst))

\* Injector.close
close(st, isclosed) ==
    IF isclosed THEN Raise(st, "RuntimeError", None, None) ELSE close_from(st, 1)

(***************************************************************************)
(* DecoratingInjector (jeni_decoration.py).  decorator_registry of a class *)
(* maps <<basenote, name>> to the list of its steps [mode, fn], in the     *)
(* order they were registered.  The steps of the model are the mocks of    *)
(* the tests, none of them annotated:                                      *)
(*   reverse_it  returns v[::-1]                                           *)
(*   double_it   returns v + v                                             *)
(*   ignore_it   returns a Mock                                            *)
(***************************************************************************)
DECORATE == "decorate"

CONFIGURE == "configure"

Mock == [py |-> "Mock", s |-> << >>]

Reversed(seq) == [i \in 1..Len(seq) |-> seq[Len(seq) + 1 - i]]

\* fn(value) of a step: slicing and + need a str or a tuple, a Mock has
\* neither
CallStep(fn, value) ==
    CASE fn = "reverse_it" ->
            IF value.py \in {"str", "tuple"}
            THEN [ok |-> TRUE, exc |-> "", val |-> [value EXCEPT !.s = Reversed(@)]]
            ELSE [ok |-> FALSE, exc |-> "TypeError", val |-> None]
      [] fn = "double_it" ->
            IF value.py \in {"str", "tuple"}
            THEN [ok |-> TRUE, exc |-> "", val |-> [value EXCEPT !.s = @ \o @]]
            ELSE [ok |-> FALSE, exc |-> "TypeError", val |-> None]
      [] OTHER -> [ok |-> TRUE, exc |-> "", val |-> Mock]

\* the steps a class registered for <<basenote, name>>
StepsOn(reg, cls, key) ==
    IF reg[cls].exists /\ key \in DOMAIN reg[cls].tab THEN reg[cls].tab[key] ELSE << >>

\* decorate without the test of the name in configure mode
decorate_any_name(reg, cls, note, fn, mode) ==
    LET pn == parse_note(note)
        key == <<pn.base, pn.name>>
    IN  IF mode \notin {DECORATE, CONFIGURE}
        THEN [ok |-> FALSE, exc |-> "ValueError", reg |-> reg]
        ELSE IF ~pn.ok
        THEN [ok |-> FALSE, exc |-> pn.exc, reg |-> reg]
        ELSE [ok |-> TRUE, exc |-> "",
              reg |-> [reg EXCEPT ![cls] =
                          [exists |-> TRUE,
                           tab |-> SetItem(reg[cls].tab, key,
                                           Append(StepsOn(reg, cls, key),
                                                  [mode |-> mode, fn |-> fn]))]]]

\* cls.decorate(note, fn, mode=mode): the registry after it, or the error
decorate(reg, cls, note, fn, mode) ==
    LET pn == parse_note(note)
        key == <<pn.base, pn.name>>
    IN  IF mode \notin {DECORATE, CONFIGURE}
        THEN [ok |-> FALSE, exc |-> "ValueError", reg |-> reg]
        ELSE IF ~pn.ok
        THEN [ok |-> FALSE, exc |-> pn.exc, reg |-> reg]
        ELSE IF mode = CONFIGURE /\ pn.name # None
        THEN [ok |-> FALSE, exc |-> "ValueError", reg |-> reg]
        ELSE [ok |-> TRUE, exc |-> "",
              reg |-> [reg EXCEPT ![cls] =
                          [exists |-> TRUE,
                           tab |-> SetItem(reg[cls].tab, key,
                                           Append(StepsOn(reg, cls, key),
                                                  [mode |-> mode, fn |-> fn]))]]]

\* cls.configure(note, fn)
configure(reg, cls, note, fn) == decorate(reg, cls, note, fn, CONFIGURE)

RECURSIVE decorators_from(_, _, _, _)
\* the steps of the classes from the i-th on, one class after the other
decorators_from(classes, i, basenote, name) ==
    IF i > Len(classes)
    THEN << >>
    ELSE StepsOn(decorator_registry, classes[i], <<basenote, name>>)
            \o decorators_from(classes, i + 1, basenote, name)

\* the walk in method resolution order, the subclass first
decorators_iter_mro(cls, basenote, name) ==
    decorators_from(mro(cls), 1, basenote, name)

\* decorators_iter looking up the steps of the base note, whatever the name
decorators_iter_any_name(cls, basenote, name) ==
    decorators_from(Reversed(mro(cls)), 1, basenote, None)

\* decorators_iter: the walk over type(self).mro()[::-1]
decorators_iter(cls, basenote, name) ==
    decorators_from(Reversed(mro(cls)), 1, basenote, name)

\* a step whose return value always becomes the value
next_value_returned(mode, value, returned) == returned

\* the value after a step returned: decorate replaces it, configure does not
next_value(mode, value, returned) ==
    IF mode = DECORATE THEN returned ELSE value

RECURSIVE decorators_apply_from(_, _, _, _, _)
\* the loop of decorators_apply from the i-th step on
decorators_apply_from(st, basenote, steps, i, value) ==
    IF i > Len(steps)
    THEN Return(st, value)
    ELSE IF ~CallStep(steps[i].fn, value).ok
    THEN Raise(Event(st, "deco", steps[i].fn, basenote, value),
               CallStep(steps[i].fn, value).exc, None, None)
    ELSE decorators_apply_from(Event(st, "deco", steps[i].fn, basenote, value),
                               basenote, steps, i + 1,
                               next_value(steps[i].mode, value,
                                          CallStep(steps[i].fn, value).val))

decorators_apply(cls, st, basenote, name, value) ==
    decorators_apply_from(st, basenote, decorators_iter(cls, basenote, name), 1, value)

\* self.apply_regardless(provider_factory): the provider registered is
\* called, none of its arguments being annotated.  A class gives its
\* instance; the provider of a generator function gives a GeneratorProvider
\* that init has started.  The caller stores it in self.instances.
apply_regardless(st, basenote, provider_factory) ==
    IF isgeneratorfunction(provider_factory)
    THEN init_with(basenote,
                   NewGeneratorProvider(provider_factory,
                                        support_name[provider_factory] = "true"),
                   NoArguments(st))
    ELSE Return([Event(st, "new", provider_factory, basenote, None) EXCEPT
                    !.ins = SetInst(@, basenote, NewObject(provider_factory))],
                None)

\* self.partial_regardless(provider.get) of a get without annotations
partial_regardless(fn) == fn

\* the value get returned, decorated
decorated(cls, basenote, name, r) ==
    IF ~r.ok THEN r ELSE decorators_apply(cls, r.st, basenote, name, r.val)

\* the part of _handle_provider after self.instances[basenote] is there
provider_get(cls, m, note, basenote, name) ==
    IF ~m.ok THEN m
    ELSE try_call(note, basenote, name,
                  decorated(cls, basenote, name,
                            Call(m.st, basenote,
                                 partial_regardless(GetMethod(GetInst(m.st.ins, basenote))),
                                 << >>, name, note)))

\* _handle_provider keeping the initial value of a generator provider as the
\* value of the note and returning it for a note without a name, the way
\* Injector.handle_provider does
_handle_provider_init_value(cls, st, provider_factory, note, basenote, name) ==
    LET m == apply_regardless(st, basenote, provider_factory)
    IN  IF ~HasInst(st.ins, basenote) /\ isgeneratorfunction(provider_factory) /\ m.ok
        THEN IF name = None
             THEN [m EXCEPT !.st.vals = SetItem(@, basenote, m.val)]
             ELSE provider_get(cls, [m EXCEPT !.st.vals = SetItem(@, basenote, m.val)],
                               note, basenote, name)
        ELSE provider_get(cls,
                          IF HasInst(st.ins, basenote) THEN Return(st, None) ELSE m,
                          note, basenote, name)

\* _handle_provider storing the value in self.values before it is decorated
_handle_provider_stored_first(cls, st, provider_factory, note, basenote, name) ==
    LET m == IF HasInst(st.ins, basenote)
             THEN Return(st, None)
             ELSE apply_regardless(st, basenote, provider_factory)
        get == partial_regardless(GetMethod(GetInst(m.st.ins, basenote)))
    IN  decorated(cls, basenote, name,
                  try_call(note, basenote, name,
                           Call(m.st, basenote, get, << >>, name, note)))

\* DecoratingInjector._handle_provider
_handle_provider(cls, st, provider_factory, note, basenote, name) ==
    provider_get(cls,
                 IF HasInst(st.ins, basenote)
                 THEN Return(st, None)
                 ELSE apply_regardless(st, basenote, provider_factory),
                 note, basenote, name)

\* inj.get(note) of the injector the decoration layer extends: the cached
\* value of an unnamed note, or the provider looked up and handled
get(cls, st, note) ==
    LET pn == parse_note(note)
        found == lookup(cls, pn.base)
    IN  IF ~pn.ok
        THEN Raise(st, pn.exc, None, None)
        ELSE IF pn.name = None /\ pn.base \in DOMAIN st.vals
        THEN Return(st, st.vals[pn.base])
        ELSE IF found = "LookupError"
        THEN Raise(Event(st, "lookup", "provider_registry", pn.base, None),
                   "LookupError", None, None)
        ELSE _handle_provider(cls, Event(st, "lookup", "provider_registry", pn.base, None),
                              found, note, pn.base, pn.name)

(***************************************************************************)
(* The state after the class definitions and the construction of the       *)
(* injectors (Injector.__init__): nothing registered, nothing resolved.    *)
(***************************************************************************)
NoCall ==
    [op |-> "none", inj |-> "", cls |-> "", note |-> None, fn |-> "", ok |-> TRUE,
     val |-> None, exc |-> "", exc_note |-> None, origin |-> None, ev |-> << >>]

InitState ==
    /\ decorator_registry = [c \in Types |-> NoRegistry]
    /\ closed = [i \in Injectors |-> FALSE]
    /\ instances = [i \in Injectors |-> << >>]
    /\ values = [i \in Injectors |-> << >>]
    /\ last = NoCall
    /\ nregs = 0
    /\ ndecos = 0
    /\ nops = 0

\* one injector is used, of either class
Init ==
    /\ InitState
    /\ provider_registry = [c \in Types |-> NoRegistry]
    /\ support_name = [g \in GenFns |-> "unset"]
    /\ registered_as = [g \in GenFns |-> {}]
    /\ klass \in {k \in [Injectors -> Types] : k["i2"] = "T"}

\* the notes resolved directly; DEP is resolved as a dependency
Notes == {IT, Named(IT, N1), Named(IT, N2)}

StateOf(inj) == [ins |-> instances[inj], vals |-> values[inj], ev |-> << >>]

\* what a call on an injector leaves in last
Outcome(op, inj, note, fn, r) ==
    [op |-> op, inj |-> inj, cls |-> type(inj), note |-> note, fn |-> fn, ok |-> r.ok,
     val |-> r.val, exc |-> r.exc, exc_note |-> r.note, origin |-> r.origin,
     ev |-> r.st.ev]

\* a call whose dictionaries are attributes of the class, one pair for all
\* the injectors
Called_shared(op, inj, note, fn, r) ==
    /\ instances' = [i \in Injectors |-> r.st.ins]
    /\ values' = [i \in Injectors |-> r.st.vals]
    /\ last' = Outcome(op, inj, note, fn, r)

\* a call on inj ended as r: the injector's dictionaries and last
Called(op, inj, note, fn, r) ==
    /\ instances' = [instances EXCEPT ![inj] = r.st.ins]
    /\ values' = [values EXCEPT ![inj] = r.st.vals]
    /\ last' = Outcome(op, inj, note, fn, r)

(***************************************************************************)
(* cls.provider(note, provider, name=name) of a class or a generator       *)
(* function.  FooProvider.get depends on DEP: registered under DEP it      *)
(* would resolve itself without end, so that registration is left out.     *)
(***************************************************************************)
Provider(cls, note, p, name) ==
    /\ nregs < MaxRegs
    /\ ~(p = "FooProvider" /\ note = DEP)
    /\ isclass(p) => ~name
    /\ nregs' = nregs + 1
    /\ support_name' = IF isgeneratorfunction(p)
                       THEN [support_name EXCEPT ![p] = IF name THEN "true" ELSE "false"]
                       ELSE support_name
    /\ registered_as' = IF isgeneratorfunction(p)
                        THEN [registered_as EXCEPT ![p] = @ \cup {name}]
                        ELSE registered_as
    /\ provider_registry' = register(provider_registry, cls, parse_note(note).base, p)
    /\ last' = [NoCall EXCEPT !.op = "provider", !.cls = cls, !.note = note, !.fn = p]
    /\ UNCHANGED <<klass, decorator_registry, closed, instances, values, ndecos, nops>>

\* cls.factory(note, fn) of a plain function
Factory(cls, note, fn) ==
    /\ nregs < MaxRegs
    /\ nregs' = nregs + 1
    /\ provider_registry' = register(provider_registry, cls, parse_note(note).base, fn)
    /\ last' = [NoCall EXCEPT !.op = "factory", !.cls = cls, !.note = note, !.fn = fn]
    /\ UNCHANGED <<klass, support_name, registered_as, decorator_registry, closed, instances,
                   values, ndecos, nops>>

\* inj.resolve(note)
Resolve(inj, note) ==
    /\ nops < MaxOps
    /\ nops' = nops + 1
    /\ Called("resolve", inj, note, "", resolve(type(inj), StateOf(inj), note))
    /\ UNCHANGED <<klass, provider_registry, support_name, registered_as, decorator_registry,
                   closed, nregs, ndecos>>

\* inj.apply(fn) of an annotated function
Apply(inj, fn) ==
    /\ nops < MaxOps
    /\ nops' = nops + 1
    /\ Called("apply", inj, None, fn, apply(type(inj), StateOf(inj), fn))
    /\ UNCHANGED <<klass, provider_registry, support_name, registered_as, decorator_registry,
                   closed, nregs, ndecos>>

\* inj.close()
Close(inj) ==
    /\ nops < MaxOps
    /\ nops' = nops + 1
    /\ Called("close", inj, None, "", close(StateOf(inj), closed[inj]))
    /\ closed' = [closed EXCEPT ![inj] = @ \/ last'.ok]
    /\ UNCHANGED <<klass, provider_registry, support_name, registered_as, decorator_registry,
                   nregs, ndecos>>

\* the registrations of the model: FooProvider and the generator functions
\* under IT on either class (generator_with_name with and without name
\* support), and the providers of the dependency DEP on T
RegisterIt ==
    \E cls \in Types, p \in {"FooProvider"} \cup GenFns, name \in BOOLEAN :
        (name => p = "generator_with_name") /\ Provider(cls, IT, p, name)

RegisterDep ==
    \/ \E p \in {"UnsetProvider", "generator"} : Provider("T", DEP, p, FALSE)
    \/ \E fn \in Factories : Factory("T", DEP, fn)

Next ==
    \/ RegisterIt
    \/ RegisterDep
    \/ \E note \in Notes : Resolve("i1", note)
    \/ \E fn \in Applied : Apply("i1", fn)
    \/ Close("i1")

Spec == Init /\ [][Next]_vars

\* two injectors in use, i1 of either class and i2 of class T, after the
\* registrations on T are done: the generator function generator provides
\* DEP, and IT is provided by p, a generator function registered with
\* name=name or a class
InitTwo ==
    /\ InitState
    /\ klass \in {k \in [Injectors -> Types] : k["i2"] = "T"}
    /\ \E p \in {"FooProvider"} \cup GenFns, name \in BOOLEAN :
          /\ name => p = "generator_with_name"
          /\ provider_registry
                = register(register([c \in Types |-> NoRegistry], "T", DEP, "generator"),
                           "T", IT, p)
          /\ support_name = [g \in GenFns |->
                                IF g = p THEN (IF name THEN "true" ELSE "false")
                                ELSE IF g = "generator" THEN "false" ELSE "unset"]
          /\ registered_as = [g \in GenFns |->
                                 IF g = p THEN {name}
                                 ELSE IF g = "generator" THEN {FALSE} ELSE {}]

NextTwo ==
    \E inj \in Injectors :
       \/ \E note \in Notes : Resolve(inj, note)
       \/ \E fn \in Applied : Apply(inj, fn)
       \/ Close(inj)

SpecTwo == InitTwo /\ [][NextTwo]_vars

\* registrations of IT go on while two injectors resolve it: providers as
\* in RegisterIt, and the factory forty_two on either class
NextRegister ==
    \/ RegisterIt
    \/ \E cls \in Types : Factory(cls, IT, "forty_two")
    \/ \E inj \in Injectors, note \in Notes : Resolve(inj, note)

SpecRegister == Init /\ [][NextRegister]_vars

\* a generator function is registered for IT on T, with or without name
\* support; the same function is then registered on S and under DEP, with
\* either name flag, while two injectors resolve IT
InitName ==
    /\ InitState
    /\ klass \in {k \in [Injectors -> Types] : k["i2"] = "T"}
    /\ \E fn \in GenFns, name \in BOOLEAN :
          /\ provider_registry = register([c \in Types |-> NoRegistry], "T", IT, fn)
          /\ support_name = [g \in GenFns |->
                                IF g = fn THEN (IF name THEN "true" ELSE "false")
                                ELSE "unset"]
          /\ registered_as = [g \in GenFns |-> IF g = fn THEN {name} ELSE {}]

NextName ==
    \/ \E name \in BOOLEAN : Provider("S", IT, provider_registry["T"].tab[IT], name)
    \/ \E name \in BOOLEAN : Provider("T", DEP, provider_registry["T"].tab[IT], name)
    \/ \E inj \in Injectors, note \in Notes : Resolve(inj, note)

SpecName == InitName /\ [][NextName]_vars

\* the same, the registration of IT on T made with name=False
InitNameOff == InitName /\ \A g \in GenFns : TRUE \notin registered_as[g]

SpecNameOff == InitNameOff /\ [][NextName]_vars

\* the same, the registration of IT on T made with name=True
InitNameOn == InitName /\ \A g \in GenFns : FALSE \notin registered_as[g]

SpecNameOn == InitNameOn /\ [][NextName]_vars

\* the provider registered for IT on T before functions with keyword notes
\* are applied: <<provider, name>> of cls.provider(IT, provider, name=name),
\* the factory error, or << >> for none
KeywordProviders ==
    {<<"generator", FALSE>>, <<"generator", TRUE>>, <<"generator_with_name", TRUE>>,
     <<"FooProvider", FALSE>>, <<"UnsetProvider", FALSE>>, <<"error", FALSE>>, << >>}

\* the registry after the registration reg for IT, and the factory error for
\* DEP when dep
KeywordRegistry(reg, dep) ==
    LET r0 == [c \in Types |-> NoRegistry]
        r1 == IF dep THEN register(r0, "T", DEP, "error") ELSE r0
    IN  IF reg = << >> THEN r1 ELSE register(r1, "T", IT, reg[1])

InitKeyword ==
    /\ InitState
    /\ klass \in {k \in [Injectors -> Types] : k["i2"] = "T"}
    /\ \E reg \in KeywordProviders, dep \in BOOLEAN :
          /\ provider_registry = KeywordRegistry(reg, dep)
          /\ support_name = [g \in GenFns |->
                                IF reg # << >> /\ g = reg[1]
                                THEN (IF reg[2] THEN "true" ELSE "false")
                                ELSE "unset"]
          /\ registered_as = [g \in GenFns |->
                                 IF reg # << >> /\ g = reg[1] THEN {reg[2]} ELSE {}]

\* functions with keyword notes are applied, between resolves of IT
NextKeyword ==
    \/ \E fn \in Applied \cup {"keyword_named"} : Apply("i1", fn)
    \/ \E note \in Notes : Resolve("i1", note)

SpecKeyword == InitKeyword /\ [][NextKeyword]_vars

(***************************************************************************)
(* The decoration layer, as its tests use it: the injector classes T       *)
(* (TestInjector) and S (SubTestInjector) derive from DecoratingInjector,  *)
(* and the set-up has registered the provider TestGenie on T.  Steps are   *)
(* registered on either class and notes are resolved with inj.get.         *)
(***************************************************************************)
InitDeco ==
    /\ InitState
    /\ provider_registry = register([c \in Types |-> NoRegistry], "T", IT, "TestGenie")
    /\ support_name = [g \in GenFns |-> "unset"]
    /\ registered_as = [g \in GenFns |-> {}]
    /\ klass \in {k \in [Injectors -> Types] : k["i2"] = "T"}

\* a registration of a step ended as d: the registry and last
Registered(op, cls, note, fn, d) ==
    /\ ndecos < MaxDecos
    /\ ndecos' = ndecos + 1
    /\ decorator_registry' = d.reg
    /\ last' = [NoCall EXCEPT !.op = op, !.cls = cls, !.note = note, !.fn = fn,
                              !.ok = d.ok, !.exc = d.exc]
    /\ UNCHANGED <<klass, provider_registry, support_name, registered_as, closed, instances,
                   values, nregs, nops>>

\* cls.decorate(note, fn)
Decorate(cls, note, fn) ==
    Registered("decorate", cls, note, fn, decorate(decorator_registry, cls, note, fn, DECORATE))

\* cls.configure(note, fn)
Configure(cls, note, fn) ==
    Registered("configure", cls, note, fn, configure(decorator_registry, cls, note, fn))

\* inj.get(note)
Get(inj, note) ==
    /\ nops < MaxOps
    /\ nops' = nops + 1
    /\ Called("get", inj, note, "", get(type(inj), StateOf(inj), note))
    /\ UNCHANGED <<klass, provider_registry, support_name, registered_as, decorator_registry,
                   closed, nregs, ndecos>>

\* the registrations of the model: reverse_it and double_it decorate and
\* ignore_it configures IT on either class; on T, double_it decorates and
\* ignore_it configures the named note
RegisterStep ==
    \/ \E cls \in Types, fn \in {"reverse_it", "double_it"} : Decorate(cls, IT, fn)
    \/ Decorate("T", Named(IT, N1), "double_it")
    \/ \E cls \in Types : Configure(cls, IT, "ignore_it")
    \/ Configure("T", Named(IT, N1), "ignore_it")

\* the decoration layer over either kind of provider: the set-up has
\* registered on T the class TestGenie or the generator function
\* generator_with_name, with name support
InitDecoGen ==
    /\ InitState
    /\ \E p \in {"TestGenie", "generator_with_name"} :
          provider_registry = register([c \in Types |-> NoRegistry], "T", IT, p)
    /\ support_name = [g \in GenFns |-> IF g = "generator_with_name" THEN "true" ELSE "unset"]
    /\ registered_as = [g \in GenFns |-> IF g = "generator_with_name" THEN {TRUE} ELSE {}]
    /\ klass \in {k \in [Injectors -> Types] : k["i2"] = "T"}

NextDeco ==
    \/ RegisterStep
    \/ \E note \in Notes : Get("i1", note)

SpecDeco == InitDeco /\ [][NextDeco]_vars

SpecDecoGen == InitDecoGen /\ [][NextDeco]_vars

(***************************************************************************)
(* Injector.parse_note applied to notes: strings of up to MaxLen           *)
(* characters out of a letter, the colon and the newline, tuples of up to  *)
(* MaxLen items, and objects that are neither.                             *)
(***************************************************************************)
NoteChars == {"a", ":", "\n"}

StrNotes == UNION {{Str(chars) : chars \in [1..k -> NoteChars]} : k \in 0..MaxLen}

TupleNotes == UNION {{Tup(items) : items \in [1..k -> {Str(<<"a">>), None}]} : k \in 0..MaxLen}

OtherNotes == {None, PyInt(1)}

\* cls.parse_note(note): the pair returned is recorded as a tuple
ParseNote(note) ==
    /\ last' = [NoCall EXCEPT !.op = "parse_note", !.note = note,
                              !.ok = parse_note(note).ok, !.exc = parse_note(note).exc,
                              !.val = IF parse_note(note).ok
                                      THEN Tup(<<parse_note(note).base, parse_note(note).name>>)
                                      ELSE None]
    /\ UNCHANGED <<klass, provider_registry, support_name, registered_as, decorator_registry,
                   closed, instances, values, nregs, ndecos, nops>>

NextParse ==
    \/ \E note \in StrNotes : ParseNote(note)
    \/ \E note \in TupleNotes : ParseNote(note)
    \/ \E note \in OtherNotes : ParseNote(note)

SpecParse == Init /\ [][NextParse]_vars

(***************************************************************************)
(* A GeneratorProvider used on its own: it is made of either generator     *)
(* function, with or without name support, started by init, and then get   *)
(* and close are called on it in any order.  It is kept under IT in the    *)
(* instances of i1.                                                        *)
(***************************************************************************)
\* GeneratorProvider(fn, support_name=sn).init()
ProviderInit(fn, sn) ==
    /\ instances["i1"] = << >>
    /\ Called("provider_init", "i1", IT, fn,
              GeneratorProvider_init(StateOf("i1"), IT, NewGeneratorProvider(fn, sn)))
    /\ UNCHANGED <<klass, provider_registry, support_name, registered_as, decorator_registry,
                   closed, nregs, ndecos, nops>>

\* provider.get(name)
ProviderGet(name) ==
    /\ HasInst(instances["i1"], IT)
    /\ nops < MaxOps
    /\ nops' = nops + 1
    /\ Called("provider_get", "i1", IF name = None THEN IT ELSE Named(IT, name), "",
              GeneratorProvider_get(StateOf("i1"), IT, name))
    /\ UNCHANGED <<klass, provider_registry, support_name, registered_as, decorator_registry,
                   closed, nregs, ndecos>>

\* what provider.close() did: c.inst is the provider afterwards
closed_as(st, c) ==
    IF c.raised
    THEN Raise([st EXCEPT !.ins = SetInst(@, IT, c.inst)], "RuntimeError", None, None)
    ELSE Return([st EXCEPT !.ins = SetInst(@, IT, c.inst)], None)

\* provider.close()
ProviderClose ==
    /\ HasInst(instances["i1"], IT)
    /\ nops < MaxOps
    /\ nops' = nops + 1
    /\ Called("provider_close", "i1", IT, "",
              closed_as(StateOf("i1"), GeneratorProvider_close(GetInst(instances["i1"], IT))))
    /\ UNCHANGED <<klass, provider_registry, support_name, registered_as, decorator_registry,
                   closed, nregs, ndecos>>

NextProvider ==
    \/ \E fn \in GenFns, sn \in BOOLEAN : ProviderInit(fn, sn)
    \/ \E name \in {None, N1, N2} : ProviderGet(name)
    \/ ProviderClose

SpecProvider == Init /\ [][NextProvider]_vars

(***************************************************************************)
(* Properties.                                                             *)
(***************************************************************************)
BaseNotes == {IT, DEP}

\* the invocations a call made for base note b: look-ups, instantiations,
\* generator starts and resumptions, get and factory calls
Invocations(ev, b) ==
    {i \in 1..Len(ev) : ev[i].base = b /\ ev[i].kind # "close"}

\* the materializations among them
Materializations(ev, b) ==
    {i \in 1..Len(ev) : ev[i].base = b /\ ev[i].kind \in {"new", "init"}}

IsNamed(note) == note \notin BaseNotes

OnInjector(op) == op \in {"resolve", "apply", "close"}

Registers(reg, cls, n) == reg[cls].exists /\ n \in DOMAIN reg[cls].tab

\* the descriptor on the nearest class of the chain of cls that registers n
Nearest(reg, cls, n) ==
    IF cls = "S" /\ Registers(reg, "S", n) THEN reg["S"].tab[n]
    ELSE IF Registers(reg, "T", n) THEN reg["T"].tab[n]
    ELSE "none"

\* C2: a registration on the subclass S changes neither the registry of T
\* nor the descriptor T looks up; a resolver materializes and calls, for
\* every base note, the descriptor of the nearest class of its own chain, and
\* the resolution fails with LookupError, nothing invoked, when no class of
\* the chain registers the note.
C2_SubtypeOverriding ==
    [][/\ (last'.op \in {"provider", "factory"} /\ last'.cls = "S") =>
             /\ provider_registry'["T"] = provider_registry["T"]
             /\ \A n \in BaseNotes :
                   lookup_from(provider_registry', mro("T"), 1, n)
                      = lookup_from(provider_registry, mro("T"), 1, n)
       /\ (last'.op \in {"resolve", "apply"}) =>
             \A i \in 1..Len(last'.ev) :
                LET e == last'.ev[i]
                    d == Nearest(provider_registry', last'.cls, e.base)
                IN  /\ (e.kind = "lookup" /\ d = "none")
                          => (i = Len(last'.ev) /\ last'.exc = "LookupError")
                    /\ (e.kind = "lookup" /\ d # "none" /\ i = Len(last'.ev))
                          => last'.exc # "LookupError"
                    /\ (e.kind \in {"new", "init"}
                        \/ (e.kind = "call" /\ e.base \in BaseNotes))
                          => e.who = d
      ]_vars

\* a resolver of class S materializes the descriptor S registered for IT
\* while T registers another one
C2_Witness ==
    /\ last.op = "resolve" /\ last.cls = "S" /\ last.ok
    /\ Registers(provider_registry, "T", IT) /\ Registers(provider_registry, "S", IT)
    /\ provider_registry["T"].tab[IT] # provider_registry["S"].tab[IT]
    /\ \E i \in 1..Len(last.ev) :
          /\ last.ev[i].kind \in {"new", "init"}
          /\ last.ev[i].who = provider_registry["S"].tab[IT]

\* C3: a close() on a resolver that is not closed invokes the close of every
\* provider of its instance table exactly once, in the order of the table,
\* and leaves the resolver closed; a close() on a closed resolver fails and
\* invokes no close.
C3_CloseFinalizesAll ==
    [][\A inj \in Injectors :
          (last'.op = "close" /\ last'.inj = inj) =>
              IF closed[inj]
              THEN /\ ~last'.ok /\ last'.exc = "RuntimeError"
                   /\ last'.ev = << >>
                   /\ instances'[inj] = instances[inj]
              ELSE /\ last'.ok /\ closed'[inj]
                   /\ Len(last'.ev) = Len(instances[inj])
                   /\ \A i \in 1..Len(instances[inj]) :
                         /\ last'.ev[i].kind = "close"
                         /\ last'.ev[i].base = instances[inj][i].key
                         /\ instances'[inj][i].inst.closes
                               = instances[inj][i].inst.closes + 1
      ]_vars

\* C4: no provider is ever closed more than once, and when a provider's close
\* raised during close(), every provider of the instance table has received
\* its close.
C4_CloseLeakFree ==
    /\ \A inj \in Injectors : \A i \in 1..Len(instances[inj]) :
          instances[inj][i].inst.closes <= 1
    /\ (last.op = "close" /\ ~last.ok /\ last.ev # << >>) =>
          /\ last.exc = "RuntimeError"
          /\ \A i \in 1..Len(instances[last.inj]) :
                instances[last.inj][i].inst.closes = 1

\* C5: on a closed resolver a resolve or apply fails and changes neither the
\* instance table nor the value cache.
C5_NoResolveAfterClose ==
    [][\A inj \in Injectors :
          (closed[inj] /\ last'.inj = inj /\ last'.op \in {"resolve", "apply"}) =>
              /\ ~last'.ok
              /\ instances'[inj] = instances[inj]
              /\ values'[inj] = values[inj]
      ]_vars

\* the GeneratorProvider held under IT, when there is one
GenAt(ins) == HasInst(ins, IT) /\ GetInst(ins, IT).kind = "gen"

Sends(ev) == {i \in 1..Len(ev) : ev[i].kind = "send"}

\* C6: IT is registered on T with a generator function, without name
\* support.  On a resolver of class T, init runs when the provider is
\* materialized and never again, an unnamed resolve returns the value
\* yielded at init, and a named resolve fails with TypeError (get-by-name is
\* not supported) without resuming the generator.
C6_GeneratorWithoutName ==
    [][\A inj \in Injectors :
          (/\ last'.op = "resolve" /\ last'.inj = inj
           /\ type(inj) = "T"
           /\ GenAt(instances'[inj])) =>
              LET gp == GetInst(instances'[inj], IT)
              IN  /\ Cardinality(Materializations(last'.ev, IT))
                        = (IF HasInst(instances[inj], IT) THEN 0 ELSE 1)
                  /\ HasInst(instances[inj], IT) => gp = GetInst(instances[inj], IT)
                  /\ Sends(last'.ev) = {}
                  /\ IF IsNamed(last'.note)
                     THEN ~last'.ok /\ last'.exc = "TypeError"
                     ELSE /\ last'.ok /\ last'.val = gp.init_value
                          /\ gp.init_value = HELLO
      ]_vars

\* C7: IT is registered on T with the generator function
\* generator_with_name, with name support.  On a resolver of class T, a
\* named resolve sends exactly its name to the generator, once, and returns
\* what the generator yields for that name; an unnamed resolve sends nothing
\* and returns the value yielded at init.
C7_GeneratorWithName ==
    [][\A inj \in Injectors :
          (/\ last'.op = "resolve" /\ last'.inj = inj
           /\ type(inj) = "T"
           /\ GenAt(instances'[inj])
           /\ GetInst(instances'[inj], IT).p = "generator_with_name") =>
              LET gp == GetInst(instances'[inj], IT)
                  name == parse_note(last'.note).name
              IN  IF IsNamed(last'.note)
                  THEN /\ Cardinality(Sends(last'.ev)) = 1
                       /\ \A i \in Sends(last'.ev) :
                             last'.ev[i].arg = name /\ last'.ev[i].who = gp.p
                       /\ last'.ok /\ last'.val = Greeting(name)
                       /\ values'[inj][IT] = HELLO
                  ELSE /\ Sends(last'.ev) = {}
                       /\ last'.ok /\ last'.val = HELLO
                       /\ gp.init_value = HELLO
      ]_vars

\* the note of the first positional argument of an applied function
PositionalNote(fn) == collect_notes(fn).notes[1]

\* an UnsetError was raised for base note b during the call
UnsetRaisedFor(ev, b) ==
    \E i \in 1..Len(ev) :
        /\ ev[i].base = b
        /\ \/ (ev[i].kind = "call" /\ ev[i].who = "error")
           \/ (ev[i].kind = "new" /\ ev[i].who = "UnsetProvider")

\* C8: when the provider of a keyword note raises UnsetError, the function is
\* applied with its positional arguments bound and the keyword left out; when
\* the provider of a positional note raises UnsetError, apply fails with an
\* UnsetError whose note is that positional note.
C8_UnsetBinding ==
    last.op = "apply" =>
        /\ (/\ last.fn = "keyword_error"
            /\ IT \in DOMAIN values[last.inj]
            /\ UnsetRaisedFor(last.ev, DEP)) =>
                /\ last.ok
                /\ last.val = Tup(<<Tup(<<values[last.inj][IT]>>), Tup(<< >>)>>)
        /\ (last.exc = "UnsetError" /\ last.origin = PositionalNote(last.fn)) =>
                last.exc_note = PositionalNote(last.fn)

\* the key <<base, name>> of a note
KeyOf(note) == <<parse_note(note).base, parse_note(note).name>>

\* the steps registered for a key on the chain of cls, the root class T
\* first, each class's steps in the order of their registration
ChainSteps(reg, cls, key) ==
    IF cls = "S" THEN StepsOn(reg, "T", key) \o StepsOn(reg, "S", key)
    ELSE StepsOn(reg, "T", key)

\* the calls of decoration steps among the invocations of a call
StepCalls(ev) == SelectSeq(ev, LAMBDA e : e.kind = "deco")

\* a get that went to the provider and returned
Provided(l) ==
    /\ l.op = "get" /\ l.ok
    /\ \E i \in 1..Len(l.ev) : l.ev[i].kind = "get"

\* C9: a registration appends its step to the list of its class and key and
\* changes no other list.  When a get resolves a key on a resolver of class
\* S, the steps called are those registered for the key on T, in registration
\* order, followed by those registered on S, in registration order; on a
\* resolver of class T they are those registered on T alone.  The first step
\* receives the provider's value, and the step after a decorate step receives
\* what that step returned.
C9_DecorationOrder ==
    [][/\ (last'.op \in {"decorate", "configure"} /\ last'.ok) =>
             \A c \in Types, k \in {KeyOf(IT), KeyOf(Named(IT, N1)), KeyOf(Named(IT, N2))} :
                StepsOn(decorator_registry', c, k)
                   = IF c = last'.cls /\ k = KeyOf(last'.note)
                     THEN Append(StepsOn(decorator_registry, c, k),
                                 [mode |-> last'.op, fn |-> last'.fn])
                     ELSE StepsOn(decorator_registry, c, k)
       /\ Provided(last') =>
             LET steps == ChainSteps(decorator_registry', last'.cls, KeyOf(last'.note))
                 calls == StepCalls(last'.ev)
             IN  /\ Len(calls) = Len(steps)
                 /\ \A i \in 1..Len(calls) : calls[i].who = steps[i].fn
                 /\ Len(calls) > 0 => calls[1].arg = GenieValue(KeyOf(last'.note)[2])
                 /\ \A i \in 1..(Len(calls) - 1) :
                       steps[i].mode = DECORATE =>
                          calls[i + 1].arg = CallStep(steps[i].fn, calls[i].arg).val
      ]_vars

\* a resolver of class S called two different steps of T and then a step of
\* S, each with the output of the one before
C9_Witness ==
    /\ Provided(last) /\ last.cls = "S" /\ last.note = IT
    /\ Len(StepsOn(decorator_registry, "T", KeyOf(IT))) = 2
    /\ Len(StepsOn(decorator_registry, "S", KeyOf(IT))) = 1
    /\ StepsOn(decorator_registry, "T", KeyOf(IT))[1].fn = "double_it"
    /\ StepsOn(decorator_registry, "T", KeyOf(IT))[2].fn = "reverse_it"
    /\ StepsOn(decorator_registry, "S", KeyOf(IT))[1].fn = "double_it"
    /\ Len(StepCalls(last.ev)) = 3
    /\ StepCalls(last.ev)[3].arg = Str(<<"c", "b", "a", "c", "b", "a">>)
    /\ Len(last.val.s) = 12

RECURSIVE DecorateFold(_, _, _)
\* the fold of the decorate steps among the first n steps over v
DecorateFold(steps, n, v) ==
    IF n = 0 THEN v
    ELSE IF steps[n].mode = DECORATE
    THEN CallStep(steps[n].fn, DecorateFold(steps, n - 1, v)).val
    ELSE DecorateFold(steps, n - 1, v)

\* C10: in the sequence of steps applied by a get, every step is called with
\* the fold of the decorate steps before it over the provider's value (a
\* configure step changes nothing of what the next step receives, whatever it
\* returns), and the value returned, which is the value cached for an unnamed
\* note, is the fold of all the decorate steps.
C10_DecorationModes ==
    Provided(last) =>
        LET key == KeyOf(last.note)
            steps == ChainSteps(decorator_registry, last.cls, key)
            calls == StepCalls(last.ev)
            v == GenieValue(key[2])
        IN  /\ Len(calls) = Len(steps)
            /\ \A i \in 1..Len(calls) : calls[i].arg = DecorateFold(steps, i - 1, v)
            /\ last.val = DecorateFold(steps, Len(steps), v)
            /\ key[2] = None => values[last.inj][key[1]] = last.val

\* reverse_it decorated, ignore_it configured, double_it decorated: the
\* value returned is 'cbacba'
C10_Witness ==
    /\ Provided(last) /\ last.note = IT
    /\ LET steps == ChainSteps(decorator_registry, last.cls, KeyOf(IT))
       IN  /\ Len(steps) = 3
           /\ steps[1] = [mode |-> DECORATE, fn |-> "reverse_it"]
           /\ steps[2] = [mode |-> CONFIGURE, fn |-> "ignore_it"]
           /\ steps[3] = [mode |-> DECORATE, fn |-> "double_it"]
    /\ StepCalls(last.ev)[2].arg = Str(<<"c", "b", "a">>)
    /\ StepCalls(last.ev)[3].arg = Str(<<"c", "b", "a">>)
    /\ last.val = Str(<<"c", "b", "a", "c", "b", "a">>)

\* the keys steps are registered for
DecoKeys == {KeyOf(IT), KeyOf(Named(IT, N1)), KeyOf(Named(IT, N2))}

\* the number of steps the registries hold
StepsHeld(reg) ==
    LET n(c) == Len(StepsOn(reg, c, KeyOf(IT))) + Len(StepsOn(reg, c, KeyOf(Named(IT, N1))))
                    + Len(StepsOn(reg, c, KeyOf(Named(IT, N2))))
    IN  n("T") + n("S")

\* C11: a configure of a named note fails with ValueError and leaves the
\* decorator registry of every class as it was; no registry ever holds a
\* configure step under a key with a name, and no get of a named note calls
\* a step that was only ever registered with configure.
C11_ConfigureNamedRejected ==
    [][/\ (last'.op = "configure" /\ IsNamed(last'.note)) =>
             /\ ~last'.ok /\ last'.exc = "ValueError"
             /\ decorator_registry' = decorator_registry
       /\ \A c \in Types, k \in DecoKeys :
             k[2] # None =>
                \A i \in 1..Len(StepsOn(decorator_registry', c, k)) :
                   StepsOn(decorator_registry', c, k)[i].mode # CONFIGURE
       /\ (last'.op = "get" /\ IsNamed(last'.note)) =>
             \A i \in 1..Len(last'.ev) :
                last'.ev[i].kind = "deco" => last'.ev[i].who # "ignore_it"
      ]_vars

\* a get of the named note calls the step decorated for it after a configure
\* of the same note was rejected: fewer steps are held than were registered
C11_Witness ==
    /\ Provided(last) /\ last.note = Named(IT, N1)
    /\ Len(StepCalls(last.ev)) = 1
    /\ StepsHeld(decorator_registry) = 1
    /\ ndecos = 2

\* C12: the first unnamed get of a base key calls every step registered for
\* the key on the resolver's chain once and stores the decorated value it
\* returns in the value cache; every later unnamed get of the key returns
\* that same value and calls no step, and no other call changes it.
C12_DecoratedValueCached ==
    [][\A inj \in Injectors, b \in BaseNotes :
          /\ (last'.op = "get" /\ last'.inj = inj /\ last'.note = b
              /\ b \notin DOMAIN values[inj] /\ last'.ok) =>
                LET steps == ChainSteps(decorator_registry, type(inj), KeyOf(b))
                IN  /\ b \in DOMAIN values'[inj]
                    /\ values'[inj][b] = last'.val
                    /\ last'.val = DecorateFold(steps, Len(steps), GenieValue(None))
                    /\ Len(StepCalls(last'.ev)) = Len(steps)
                    /\ \A i \in 1..Len(steps) : StepCalls(last'.ev)[i].who = steps[i].fn
          /\ (b \in DOMAIN values[inj]) =>
                /\ b \in DOMAIN values'[inj]
                /\ values'[inj][b] = values[inj][b]
                /\ (last'.op = "get" /\ last'.inj = inj /\ last'.note = b) =>
                      /\ last'.ok /\ last'.val = values[inj][b]
                      /\ last'.ev = << >>
      ]_vars

\* a later unnamed get answered from the cache with the value two steps
\* made of 'abc', no step called
C12_Witness ==
    /\ last.op = "get" /\ last.note = IT /\ last.ok /\ last.ev = << >>
    /\ last.val = Str(<<"c", "b", "a", "c", "b", "a">>)
    /\ values[last.inj][IT] = last.val
    /\ Len(ChainSteps(decorator_registry, last.cls, KeyOf(IT))) = 2

\* the functions of a list of steps / of a list of calls
StepFns(steps) == [i \in 1..Len(steps) |-> steps[i].fn]

CallFns(calls) == [i \in 1..Len(calls) |-> calls[i].who]

\* C13: a get of a note calls the steps registered for exactly its
\* <<base, name>> and no others: the steps of 'it:x' are called by a get of
\* 'it:x', and neither by a get of 'it' nor by a get of 'it:y', whose value is
\* what the provider returned; registering a step calls nothing.
C13_DecorationScope ==
    /\ Provided(last) =>
          LET key == KeyOf(last.note)
              steps == ChainSteps(decorator_registry, last.cls, key)
          IN  /\ CallFns(StepCalls(last.ev)) = StepFns(steps)
              /\ last.val = DecorateFold(steps, Len(steps), GenieValue(key[2]))
              /\ last.note = Named(IT, N2) =>
                    (StepCalls(last.ev) = << >> /\ last.val = N2)
    /\ last.op \in {"decorate", "configure"} => last.ev = << >>

\* a get of 'it:y' returns 'y' undecorated while steps are held for 'it:x'
\* and for 'it'
C13_Witness ==
    /\ Provided(last) /\ last.note = Named(IT, N2) /\ last.val = N2
    /\ StepCalls(last.ev) = << >>
    /\ ChainSteps(decorator_registry, last.cls, KeyOf(Named(IT, N1))) # << >>
    /\ ChainSteps(decorator_registry, last.cls, KeyOf(IT)) # << >>

HasColon(chars) == \E i \in 1..Len(chars) : chars[i] = ":"

FirstColon(chars) ==
    CHOOSE i \in 1..Len(chars) : chars[i] = ":" /\ \A j \in 1..(i - 1) : chars[j] # ":"

\* a string split on its first colon
SplitOnFirstColon(chars) ==
    IF HasColon(chars)
    THEN Tup(<<Str(SubSeq(chars, 1, FirstColon(chars) - 1)),
               Str(SubSeq(chars, FirstColon(chars) + 1, Len(chars)))>>)
    ELSE Tup(<<Str(chars), None>>)

\* C14: parse_note splits a string on its first colon into (base, name),
\* name None exactly when there is no colon; returns a tuple of two items
\* unchanged; fails with ValueError for a tuple of any other length; returns
\* (note, None) for any other object; and changes no registry and no resolver.
C14_ParseNote ==
    [][last'.op = "parse_note" =>
          /\ CASE last'.note.py = "str" ->
                      last'.ok /\ last'.val = SplitOnFirstColon(last'.note.s)
                [] last'.note.py = "tuple" ->
                      IF Len(last'.note.s) = 2
                      THEN last'.ok /\ last'.val = last'.note
                      ELSE ~last'.ok /\ last'.exc = "ValueError"
                [] OTHER -> last'.ok /\ last'.val = Tup(<<last'.note, None>>)
          /\ UNCHANGED <<provider_registry, decorator_registry, support_name, closed,
                         instances, values>>
      ]_vars

C16_UnsetCarriesNote ==
    (last.op \in {"resolve", "apply"} /\ ~last.ok /\ last.exc = "UnsetError") =>
        (last.exc_note # None /\ last.exc_note = last.origin)


\* what the provider registered gives for a name, before any decoration: a
\* TestGenie its value, a generator provider the value of its init for no
\* name and what it yields for the name sent
RawValue(p, name) ==
    IF isgeneratorfunction(p)
    THEN IF name = None THEN HELLO ELSE Greeting(name)
    ELSE GenieValue(name)

\* a get of the note with this key on inj ended as l and took the value
\* cache from vals to vals2.  fresh: the note is named or has no cached
\* value.  A fresh get that returns, returns the fold of the decorate steps
\* registered for the key over the provider's raw value, another get the
\* cached value; the cache of inj changes only by a fresh unnamed get that
\* returns, which stores the value returned, and no other cache changes
Decorated(inj, key, fresh, vals, vals2, l) ==
    /\ (l.ok /\ fresh) =>
          \A steps \in {ChainSteps(decorator_registry, type(inj), key)} :
             l.val = DecorateFold(steps, Len(steps),
                                  RawValue(lookup(type(inj), key[1]), key[2]))
    /\ (l.ok /\ ~fresh) => l.val = vals[inj][key[1]]
    /\ vals2 = IF l.ok /\ fresh /\ key[2] = None
               THEN [vals EXCEPT ![inj] = SetItem(@, key[1], l.val)]
               ELSE vals

Identity(inst) == [kind |-> inst.kind, p |-> inst.p, support_name |-> inst.support_name]

\* C18: a resolver holds at most one provider per base key.  Once
\* instances[b] is set, every later call, named or unnamed, failing or not,
\* and a close too, leaves the same provider object at the same place of the
\* table and neither instantiates a class nor starts a generator for b, even
\* when another provider has been registered for b since.  The call that
\* sets instances[b] is a resolve, an apply or a get on that resolver which
\* instantiates or starts the provider exactly once.  (A constructor that
\* raises yields no instance and nothing is stored.)
C18_OneMaterialization ==
    [][\A inj \in Injectors, b \in BaseNotes :
          /\ \A i, j \in 1..Len(instances'[inj]) :
                instances'[inj][i].key = instances'[inj][j].key => i = j
          /\ HasInst(instances[inj], b) =>
                /\ HasInst(instances'[inj], b)
                /\ InstAt(instances'[inj], b) = InstAt(instances[inj], b)
                /\ Identity(GetInst(instances'[inj], b)) = Identity(GetInst(instances[inj], b))
                /\ (last'.op \in {"resolve", "apply", "get", "close"} /\ last'.inj = inj)
                      => Materializations(last'.ev, b) = {}
          /\ (~HasInst(instances[inj], b) /\ HasInst(instances'[inj], b)) =>
                /\ last'.op \in {"resolve", "apply", "get"} /\ last'.inj = inj
                /\ Cardinality(Materializations(last'.ev, b)) = 1
      ]_vars

\* a named resolve of IT fails in the get of the generator provider an
\* earlier call started (it has no name support), after FooProvider was
\* registered for IT: the provider held is still the generator provider and
\* nothing was instantiated or started
C18_Witness ==
    /\ last.op = "resolve" /\ ~last.ok /\ IsNamed(last.note)
    /\ HasInst(instances[last.inj], IT)
    /\ Materializations(last.ev, IT) = {}
    /\ last.exc = "TypeError"
    /\ GetInst(instances[last.inj], IT).p = "generator"
    /\ lookup(last.cls, IT) = "FooProvider"

\* the generator provider kept under IT
TheProvider(ins) == GetInst(ins["i1"], IT)

\* C19: close() of a GeneratorProvider returns normally only when the
\* generator is exhausted afterwards; when the generator has yielded another
\* value after it was asked to finish, close() raises RuntimeError (the
\* ProviderProtocolError).  This holds with and without name support and
\* after any calls of get.  close() of a provider whose generator is already
\* exhausted returns normally and resumes nothing: the generator stays
\* exhausted and the provider is otherwise as it was.
C19_FinalizeProtocol ==
    [][last'.op = "provider_close" =>
          LET gp == TheProvider(instances)
              after == TheProvider(instances')
          IN  /\ after.gstate \in {"done", "yielded"}
              /\ last'.ok <=> after.gstate = "done"
              /\ ~last'.ok => last'.exc = "RuntimeError"
              /\ gp.gstate = "done" =>
                    /\ last'.ok
                    /\ after = [gp EXCEPT !.closes = @ + 1]
              /\ Identity(after) = Identity(gp)
      ]_vars

\* the second close() of a provider with name support whose generator was
\* sent a name: it returns, the generator exhausted
C19_Witness ==
    /\ last.op = "provider_close" /\ last.ok
    /\ TheProvider(instances).support_name
    /\ TheProvider(instances).p = "generator_with_name"
    /\ TheProvider(instances).closes = 2
    /\ TheProvider(instances).gstate = "done"

\* the calls of close among the invocations of a call
CloseCalls(ev) == SelectSeq(ev, LAMBDA e : e.kind = "close")

\* C20: a resolve, an apply or a close on one resolver leaves the instances,
\* the values and the closed flag of every other resolver as they were.  A
\* resolver that has no provider for a base key makes its own, with one
\* instantiation or one generator start, also when another resolver already
\* holds a provider for that key; a successful resolve leaves a provider for
\* the base key in the resolver's own table.  A close closes providers of
\* its own table only: it calls close once for each of them and leaves the
\* providers of the other resolver unclosed.
C20_ResolversIsolated ==
    [][\A r1, r2 \in Injectors :
          (r1 # r2 /\ OnInjector(last'.op) /\ last'.inj = r1) =>
             /\ instances'[r2] = instances[r2]
             /\ values'[r2] = values[r2]
             /\ closed'[r2] = closed[r2]
             /\ \A b \in BaseNotes :
                   (~HasInst(instances[r1], b) /\ HasInst(instances'[r1], b))
                      => Cardinality(Materializations(last'.ev, b)) = 1
             /\ (last'.op = "resolve" /\ last'.ok)
                   => HasInst(instances'[r1], parse_note(last'.note).base)
             /\ (last'.op = "close" /\ last'.ok) =>
                   /\ Len(CloseCalls(last'.ev)) = Len(instances[r1])
                   /\ \A i \in 1..Len(instances[r1]) :
                         instances'[r1][i].inst.closes = instances[r1][i].inst.closes + 1
      ]_vars

\* both resolvers hold their own generator provider of IT; i1 is closed and
\* its provider finished, the provider of i2 is still waiting at its yield,
\* never closed, and i2 is not closed and keeps its value of IT
C20_Witness ==
    /\ last.op = "close" /\ last.inj = "i1" /\ last.ok
    /\ closed["i1"] /\ ~closed["i2"]
    /\ GenAt(instances["i1"]) /\ GenAt(instances["i2"])
    /\ GetInst(instances["i1"], IT).gstate = "done"
    /\ GetInst(instances["i1"], IT).closes = 1
    /\ GetInst(instances["i2"], IT).gstate = "yielded"
    /\ GetInst(instances["i2"], IT).closes = 0
    /\ IT \in DOMAIN values["i2"]

\* fn was called in the invocations ev
Invoked(ev, fn) == \E i \in 1..Len(ev) : ev[i].kind = "call" /\ ev[i].who = fn

\* apply(fn) ended as l; the positional notes of fn were resolved, leaving
\* the resolver in st, where the resolution of the keyword note of fn ends
\* as r.  An error of r other than UnsetError is the error of apply and fn
\* is not called; with UnsetError fn is called without the keyword
\* argument; with a value fn is called with it.
KeywordOutcome(fn, arg, r, l) ==
    /\ (~r.ok /\ r.exc # "UnsetError") =>
          /\ ~l.ok /\ l.exc = r.exc
          /\ ~Invoked(l.ev, fn)
    /\ (~r.ok /\ r.exc = "UnsetError") =>
          /\ l.ok /\ Invoked(l.ev, fn)
          /\ l.val.s[2] = Tup(<< >>)
    /\ r.ok =>
          /\ l.ok /\ Invoked(l.ev, fn)
          /\ l.val.s[2] = Tup(<<<<arg, r.val>>>>)

\* the resolver after fulfill resolved the positional notes (at most one)
AfterPositional(cls, st, notes) ==
    IF Len(notes) = 0 THEN Return(st, None) ELSE resolve(cls, st, notes[1])

\* C21: of the errors the resolution of a keyword note can end with, fulfill
\* swallows UnsetError alone.  When the keyword note of an applied function
\* fails with LookupError (no provider registered), with TypeError (a name
\* the provider does not support) or with RuntimeError (the generator did
\* not yield), apply fails with that error and the function is not called;
\* when it fails with UnsetError the function is called without the
\* argument.  An apply that fails has not called the function.
C21_OnlyUnsetSwallowed ==
    [][last'.op = "apply" =>
          /\ ~last'.ok => ~Invoked(last'.ev, last'.fn)
          /\ \A c \in {collect_notes(last'.fn)} :
                \A p \in {AfterPositional(type(last'.inj), StateOf(last'.inj), c.notes)} :
                   (p.ok /\ Len(c.keyword_notes) = 1) =>
                      \A r \in {resolve(type(last'.inj), p.st, c.keyword_notes[1][2])} :
                         KeywordOutcome(last'.fn, c.keyword_notes[1][1], r, last')
      ]_vars

\* apply(keyword_named) failed with the RuntimeError of a generator that
\* did not yield for the name sent, and keyword_named was not called
C21_Witness ==
    /\ last.op = "apply" /\ last.fn = "keyword_named"
    /\ ~last.ok /\ last.exc = "RuntimeError"
    /\ \E i \in 1..Len(last.ev) : last.ev[i].kind = "send"
    /\ ~Invoked(last.ev, "keyword_named")

\* the resolver holds a provider for b or a cached value of b
Live(ins, vals, b) == HasInst(ins, b) \/ b \in DOMAIN vals

\* the provider object held for b, if any
Held(ins, b) == IF HasInst(ins, b) THEN {Identity(GetInst(ins, b))} ELSE {}

\* C22: a registration changes nothing of a resolver.  Once a resolver
\* holds a provider for b or a cached value of b, whatever is registered for
\* b afterwards, on any class: an unnamed resolve of b returns the cached
\* value if there is one, and every resolve of b, named or unnamed, works
\* with the provider object the resolver held before the call, making none.
\* A resolver that holds neither makes its provider from the nearest
\* registration of the time of the call.
C22_RegistrationNotReaching ==
    [][\A inj \in Injectors :
          /\ last'.op \in {"provider", "factory"} =>
                (instances'[inj] = instances[inj] /\ values'[inj] = values[inj])
          /\ (last'.op = "resolve" /\ last'.inj = inj) =>
                \A key \in {KeyOf(last'.note)} :
                   /\ Live(instances[inj], values[inj], key[1]) =>
                         /\ Held(instances'[inj], key[1]) = Held(instances[inj], key[1])
                         /\ Materializations(last'.ev, key[1]) = {}
                         /\ (key[2] = None /\ key[1] \in DOMAIN values[inj]) =>
                               (last'.ok /\ last'.val = values[inj][key[1]])
                   /\ (~Live(instances[inj], values[inj], key[1])
                       /\ HasInst(instances'[inj], key[1])) =>
                         GetInst(instances'[inj], key[1]).p = lookup(type(inj), key[1])
      ]_vars

\* C23: while the registration of IT on T stays as it is, registering the
\* same generator function on another class or under another note, with
\* whatever name flag, changes nothing of the name support of IT on the
\* resolvers of class T: the providers that any two of them make for IT,
\* before or after those registrations, support names alike.
C23_NameSupportPerRegistration ==
    \A r1, r2 \in Injectors :
       (/\ type(r1) = "T" /\ type(r2) = "T"
        /\ GenAt(instances[r1]) /\ GenAt(instances[r2]))
          => (GetInst(instances[r1], IT).support_name
                = GetInst(instances[r2], IT).support_name)
=============================================================================
